---- MODULE Spec2Model ----
(***************************************************************************)
(* Tenant / property matching engine (LinearProgrammingService) and its    *)
(* run-time telemetry (PerformanceMonitoringService).                      *)
(*                                                                         *)
(* The repository carries three revisions of LinearProgrammingService:     *)
(*   "greedy"     services/LinearProgrammingService.ts, lines 1-748        *)
(*   "lp_solver"  services/LinearProgrammingService.ts, lines 749-1515     *)
(*   "lp_matrix"  unnamed/part_012, lines 1-849                            *)
(* The deployed revision is fixed when the process starts.                 *)
(*                                                                         *)
(* Numbers: JavaScript doubles are held as exact rationals <<n, d>>, d > 0,*)
(* in lowest terms; weights are held in thousandths (250 = 0.25).          *)
(* Strings are sequences of one-character strings.                         *)
(***************************************************************************)
EXTENDS Integers, Sequences, FiniteSets, TLC

\* ------------------------------------------------------------------------
\* Bounds of the model
\* ------------------------------------------------------------------------
MaxPool == 2

MaxResultsBound == 2

MaxTicks == 1

\* Calls of recordMetrics in a behaviour of the monitoring service
MaxAppends == 2

\* Days that may pass in a behaviour of the monitoring service
MaxDays == 1

\* ------------------------------------------------------------------------
\* Rational arithmetic
\* ------------------------------------------------------------------------
Abs(x) == IF x < 0 THEN -x ELSE x

RECURSIVE GCD(_, _)
GCD(a, b) == IF b = 0 THEN a ELSE GCD(b, a % b)

Rat(n, d) ==
  LET s == IF d < 0 THEN -1 ELSE 1
      g == GCD(Abs(n), Abs(d))
  IN  <<(s * n) \div g, (s * d) \div g>>

RInt(n) == <<n, 1>>

RAdd(a, b) == Rat(a[1] * b[2] + b[1] * a[2], a[2] * b[2])

RSub(a, b) == Rat(a[1] * b[2] - b[1] * a[2], a[2] * b[2])

RMul(a, b) == Rat(a[1] * b[1], a[2] * b[2])

RDiv(a, b) == Rat(a[1] * b[2], a[2] * b[1])

RLe(a, b) == a[1] * b[2] <= b[1] * a[2]

RLt(a, b) == a[1] * b[2] < b[1] * a[2]

RMax(a, b) == IF RLe(a, b) THEN b ELSE a

RMin(a, b) == IF RLe(a, b) THEN a ELSE b

\* Math.round: nearest integer, halves towards +infinity
MathRound(a) == (2 * a[1] + a[2]) \div (2 * a[2])

RECURSIVE SumSeq(_)
SumSeq(s) == IF s = <<>> THEN 0 ELSE s[1] + SumSeq(Tail(s))

\* ------------------------------------------------------------------------
\* Strings
\* ------------------------------------------------------------------------
UpperChars == <<"A", "G", "I", "L", "R", "Y">>

LowerChars == <<"a", "g", "i", "l", "r", "y">>

ToLowerChar(c) ==
  IF \E i \in 1..Len(UpperChars) : UpperChars[i] = c
  THEN LowerChars[CHOOSE i \in 1..Len(UpperChars) : UpperChars[i] = c]
  ELSE c

\* String.prototype.toLowerCase
ToLowerCase(s) == [i \in 1..Len(s) |-> ToLowerChar(s[i])]

\* String.prototype.includes
Includes(s, sub) ==
  \E i \in 0..(Len(s) - Len(sub)) : SubSeq(s, i + 1, i + Len(sub)) = sub

\* new RegExp(pattern, "i").test(s): unanchored, case-insensitive; the
\* pattern is the raw string, so "." matches any character
RegExpTestI(pattern, s) ==
  \E i \in 0..(Len(s) - Len(pattern)) :
    \A k \in 1..Len(pattern) :
      \/ pattern[k] = "."
      \/ ToLowerChar(pattern[k]) = ToLowerChar(s[i + k])

\* String.prototype.split(" ")
RECURSIVE SplitFrom(_, _, _)
SplitFrom(s, i, cur) ==
  IF i > Len(s) THEN <<cur>>
  ELSE IF s[i] = " " THEN <<cur>> \o SplitFrom(s, i + 1, <<>>)
  ELSE SplitFrom(s, i + 1, Append(cur, s[i]))

Split(s) == SplitFrom(s, 1, <<>>)

SeqRange(s) == {s[i] : i \in 1..Len(s)}

\* ------------------------------------------------------------------------
\* Configuration of the service
\* ------------------------------------------------------------------------
WeightKeys == <<"budget", "location", "amenities", "size", "features", "utilities">>

defaultWeights ==
  [budget |-> 250, location |-> 200, amenities |-> 150,
   size |-> 150, features |-> 150, utilities |-> 100]

maxExecutionTime == 30000

minMatchThreshold == 30

maxMetricsHistory == 1000

Revisions == {"greedy", "lp_solver", "lp_matrix"}

\* ------------------------------------------------------------------------
\* Scoring model
\* ------------------------------------------------------------------------
R100 == RInt(100)

R0 == RInt(0)

\* 100 - (diff / threshold) * 100, floored at 0
LinearDecay(diff, threshold) ==
  RMax(R0, RSub(R100, RMul(RDiv(diff, threshold), R100)))

calculateBudgetScore(rev, rent, budget) ==
  IF rev = "lp_matrix"
  THEN IF rent < budget.min \/ rent > budget.max THEN R0
       ELSE IF budget.max - budget.min = 0 THEN R100
       ELSE RMul(Rat(budget.max - rent, budget.max - budget.min), R100)
  ELSE IF rent >= budget.min /\ rent <= budget.max THEN R100
       ELSE IF rent < budget.min
            THEN LinearDecay(RInt(budget.min - rent), Rat(budget.min, 2))
       ELSE IF budget.max = 0 THEN R0
       ELSE LinearDecay(RInt(rent - budget.max), Rat(budget.max, 2))

calculateLocationScore(propertyLocation, preferredLocation) ==
  LET city == ToLowerCase(propertyLocation.city)
      address == ToLowerCase(propertyLocation.address)
      preferred == ToLowerCase(preferredLocation)
      cityWords == Split(city)
      preferredWords == Split(preferred)
      WordMatches(word) ==
        \E i \in 1..Len(preferredWords) :
          Includes(preferredWords[i], word) \/ Includes(word, preferredWords[i])
      matchingWords == SelectSeq(cityWords, WordMatches)
  IN  IF preferredLocation = <<>> THEN R100
      ELSE IF Includes(city, preferred) \/ Includes(preferred, city) THEN R100
      ELSE IF Includes(address, preferred) THEN RInt(80)
      ELSE IF Len(matchingWords) > 0
           THEN RMul(Rat(Len(matchingWords), Len(preferredWords)), RInt(60))
      ELSE RInt(20)

calculateAmenityScore(propertyAmenities, requiredAmenities) ==
  LET availableAmenities ==
        [i \in 1..Len(propertyAmenities) |-> ToLowerCase(propertyAmenities[i])]
      required ==
        [i \in 1..Len(requiredAmenities) |-> ToLowerCase(requiredAmenities[i])]
      IsMatched(amenity) ==
        \E i \in 1..Len(availableAmenities) :
          Includes(availableAmenities[i], amenity)
            \/ Includes(amenity, availableAmenities[i])
      matchingAmenities == SelectSeq(required, IsMatched)
  IN  IF Len(requiredAmenities) = 0 THEN R100
      ELSE RMul(Rat(Len(matchingAmenities), Len(required)), R100)

calculateSizeScore(property, constraints) ==
  LET idealSize == constraints.bedrooms * 40 + 20
      sizeDifference == Abs(property.size - idealSize)
  IN  IF property.size = 0 THEN RInt(70)
      ELSE LinearDecay(RInt(sizeDifference), Rat(idealSize, 2))

\* FlagScore returning matchCount / totalRequired * 100 also for
\* totalRequired = 0, taken as 0
FlagScore_NoneRequiredIsZero(propertyFlags, requiredFlags) ==
  IF ~requiredFlags.present \/ ~propertyFlags.present THEN R100
  ELSE IF Cardinality(requiredFlags.on) = 0 THEN R0
  ELSE RMul(Rat(Cardinality(requiredFlags.on \cap propertyFlags.on),
                Cardinality(requiredFlags.on)), R100)

\* A flag map is [present |-> BOOLEAN, on |-> set of the flags that are true]
FlagScore(propertyFlags, requiredFlags) ==
  LET totalRequired == Cardinality(requiredFlags.on)
      matchCount == Cardinality(requiredFlags.on \cap propertyFlags.on)
  IN  IF ~requiredFlags.present \/ ~propertyFlags.present THEN R100
      ELSE IF totalRequired = 0 THEN R100
      ELSE RMul(Rat(matchCount, totalRequired), R100)

calculateFeatureScore(propertyFeatures, requiredFeatures) ==
  FlagScore(propertyFeatures, requiredFeatures)

calculateUtilityScore(propertyUtilities, requiredUtilities) ==
  FlagScore(propertyUtilities, requiredUtilities)

ScoreDetails(rev, property, constraints) ==
  [budgetScore |-> calculateBudgetScore(rev, property.rent, constraints.budget),
   locationScore |->
     calculateLocationScore(property.location, constraints.location),
   amenityScore |->
     calculateAmenityScore(property.amenities, constraints.amenities),
   sizeScore |-> calculateSizeScore(property, constraints),
   featureScore |->
     calculateFeatureScore(property.features, constraints.features),
   utilityScore |->
     calculateUtilityScore(property.utilities, constraints.utilities)]

Weighted(w, score) == RMul(Rat(w, 1000), score)

\* totalScore of calculateSatisfactionScore from the six sub-scores d,
\* clamped to [0, 100]
WeightedSum(d, weights) ==
  RMin(R100, RMax(R0,
    RAdd(Weighted(weights.budget, d.budgetScore),
    RAdd(Weighted(weights.location, d.locationScore),
    RAdd(Weighted(weights.amenities, d.amenityScore),
    RAdd(Weighted(weights.size, d.sizeScore),
    RAdd(Weighted(weights.features, d.featureScore),
         Weighted(weights.utilities, d.utilityScore))))))))

calculateSatisfactionScore(rev, property, constraints, weights) ==
  WeightedSum(ScoreDetails(rev, property, constraints), weights)

\* ------------------------------------------------------------------------
\* Eligibility filter
\* ------------------------------------------------------------------------
\* The query with rent: {$gte: budget.min, $gte: budget.max}
MatchesQuery_RentAboveMax(property, constraints) ==
  /\ property.status = "available"
  /\ property.rent >= constraints.budget.min
  /\ property.rent >= constraints.budget.max
  /\ property.bedrooms >= constraints.bedrooms
  /\ property.bathrooms >= constraints.bathrooms
  /\ constraints.location # <<>> =>
       \/ RegExpTestI(constraints.location, property.location.city)
       \/ RegExpTestI(constraints.location, property.location.address)
  /\ Len(constraints.amenities) > 0 =>
       \E i \in 1..Len(property.amenities) :
         property.amenities[i] \in SeqRange(constraints.amenities)

\* The MongoDB query built by fetchEligibleProperties, applied to one document
MatchesQuery(property, constraints) ==
  /\ property.status = "available"
  /\ property.rent >= constraints.budget.min
  /\ property.rent <= constraints.budget.max
  /\ property.bedrooms >= constraints.bedrooms
  /\ property.bathrooms >= constraints.bathrooms
  /\ constraints.location # <<>> =>
       \/ RegExpTestI(constraints.location, property.location.city)
       \/ RegExpTestI(constraints.location, property.location.address)
  /\ Len(constraints.amenities) > 0 =>
       \E i \in 1..Len(property.amenities) :
         property.amenities[i] \in SeqRange(constraints.amenities)

\* cursor.limit(n)
Limit(s, n) == SubSeq(s, 1, IF Len(s) < n THEN Len(s) ELSE n)

\* slice(0, n + 1): one element too many
SliceFirst_OneMore(s, n) == SubSeq(s, 1, IF Len(s) < n + 1 THEN Len(s) ELSE n + 1)

\* Array.prototype.slice(0, n), n >= 0
SliceFirst(s, n) == SubSeq(s, 1, IF Len(s) < n THEN Len(s) ELSE n)

\* Property.find(query).limit(maxProperties) over the collection in its
\* natural order
fetchEligibleProperties(collection, constraints, maxProperties) ==
  LET Eligible(property) == MatchesQuery(property, constraints)
  IN  Limit(SelectSeq(collection, Eligible), maxProperties)

\* ------------------------------------------------------------------------
\* Explanation generator
\* ------------------------------------------------------------------------
Line(kind, n1, n2, text, flags) ==
  [line |-> kind, n1 |-> n1, n2 |-> n2, text |-> text, flags |-> flags]

\* property.features[feature] is evaluated for every flag the preference
\* has true: a TypeError when the property has no such map
ExplanationThrows(property, constraints) ==
  \/ /\ constraints.features.present
     /\ constraints.features.on # {}
     /\ ~property.features.present
  \/ /\ constraints.utilities.present
     /\ constraints.utilities.on # {}
     /\ ~property.utilities.present

generateMatchExplanation(property, constraints, matchScore) ==
  LET budgetDiff == constraints.budget.max - property.rent
      InRequired(a) == a \in SeqRange(constraints.amenities)
      matchedAmenities == SelectSeq(property.amenities, InRequired)
      matchedFeatures == constraints.features.on \cap property.features.on
      matchedUtilities == constraints.utilities.on \cap property.utilities.on
  IN  (IF budgetDiff >= 0
       THEN <<Line("budget", property.rent, budgetDiff, <<>>, {})>>
       ELSE <<>>)
      \o <<Line("location", 0, 0,
                <<property.location.address, property.location.city>>, {})>>
      \o <<Line("rooms", property.bedrooms, property.bathrooms, <<>>, {})>>
      \o (IF Len(constraints.amenities) > 0 /\ Len(matchedAmenities) > 0
          THEN <<Line("amenities", Len(matchedAmenities), 0,
                      matchedAmenities, {})>>
          ELSE <<>>)
      \o (IF constraints.features.present /\ matchedFeatures # {}
          THEN <<Line("features", 0, 0, <<>>, matchedFeatures)>>
          ELSE <<>>)
      \o (IF constraints.utilities.present /\ matchedUtilities # {}
          THEN <<Line("utilities", 0, 0, <<>>, matchedUtilities)>>
          ELSE <<>>)
      \o <<Line("overall", MathRound(matchScore), 0, <<>>, {})>>

\* ------------------------------------------------------------------------
\* Assignment
\* ------------------------------------------------------------------------
\* Array.prototype.sort with comparator cmp (stable): before[i][j] is
\* cmp(s[i], s[j]) < 0
StableSort(s, before) ==
  LET n == Len(s)
      Rank(i) ==
        1 + Cardinality({j \in 1..n :
              \/ before[j][i]
              \/ (~before[i][j] /\ j < i)})
  IN  [k \in 1..n |-> s[CHOOSE i \in 1..n : Rank(i) = k]]

\* matchDetails of a match: the sub-scores d after Math.round
RoundedDetails(d) ==
  [budgetScore |-> MathRound(d.budgetScore),
   locationScore |-> MathRound(d.locationScore),
   amenityScore |-> MathRound(d.amenityScore),
   sizeScore |-> MathRound(d.sizeScore),
   featureScore |-> MathRound(d.featureScore),
   utilityScore |-> MathRound(d.utilityScore)]

MakeMatch(rev, property, tenantId, constraints, score) ==
  [propertyId |-> property.id,
   tenantId |-> tenantId,
   matchScore |-> MathRound(score),
   matchDetails |-> RoundedDetails(ScoreDetails(rev, property, constraints)),
   explanation |-> generateMatchExplanation(property, constraints, score)]

TenantIdOf(constraints) ==
  IF constraints.tenantId = "" THEN "current-tenant" ELSE constraints.tenantId

\* The pairs of the single tenant that clear the threshold, in the order of
\* the eligible list
AllPairs(rev, properties, constraints, weights) ==
  LET Scored ==
        [i \in 1..Len(properties) |->
          [tenantId |-> TenantIdOf(constraints),
           property |-> properties[i],
           score |-> calculateSatisfactionScore(rev, properties[i],
                                                constraints, weights)]]
      Clears(pair) == RLe(RInt(minMatchThreshold), pair.score)
  IN  SelectSeq(Scored, Clears)

\* allPairs.sort((a, b) => b.score - a.score)
SortByScore(pairs) ==
  StableSort(pairs,
    [i \in 1..Len(pairs) |->
      [j \in 1..Len(pairs) |-> RLt(pairs[j].score, pairs[i].score)]])

\* The commit loop of greedyMatchingAlgorithm from pair i on; committed holds
\* the pairs committed so far
\* The loop without the test of assignedTenants
RECURSIVE GreedyLoop_IgnoresTenants(_, _, _, _, _, _)
GreedyLoop_IgnoresTenants(pairs, i, assignedTenants, assignedProperties, committed, maxResults) ==
  IF i > Len(pairs) \/ Len(committed) >= maxResults THEN committed
  ELSE IF pairs[i].property.id \notin assignedProperties
       THEN GreedyLoop_IgnoresTenants(pairs, i + 1,
                       assignedTenants \cup {pairs[i].tenantId},
                       assignedProperties \cup {pairs[i].property.id},
                       Append(committed, pairs[i]), maxResults)
       ELSE GreedyLoop_IgnoresTenants(pairs, i + 1, assignedTenants,
                       assignedProperties, committed, maxResults)

RECURSIVE GreedyLoop(_, _, _, _, _, _)
GreedyLoop(pairs, i, assignedTenants, assignedProperties, committed, maxResults) ==
  IF i > Len(pairs) \/ Len(committed) >= maxResults THEN committed
  ELSE IF pairs[i].tenantId \notin assignedTenants
          /\ pairs[i].property.id \notin assignedProperties
       THEN GreedyLoop(pairs, i + 1,
                       assignedTenants \cup {pairs[i].tenantId},
                       assignedProperties \cup {pairs[i].property.id},
                       Append(committed, pairs[i]), maxResults)
       ELSE GreedyLoop(pairs, i + 1, assignedTenants, assignedProperties,
                       committed, maxResults)

\* Outcome of an assignment step: the matches, or a throw out of the
\* explanation generator
Outcome(rev, committed, constraints) ==
  IF \E i \in 1..Len(committed) :
       ExplanationThrows(committed[i].property, constraints)
  THEN [threw |-> TRUE, matches |-> <<>>]
  ELSE [threw |-> FALSE,
        matches |->
          [i \in 1..Len(committed) |->
            MakeMatch(rev, committed[i].property, committed[i].tenantId,
                      constraints, committed[i].score)]]

greedyMatchingAlgorithm(constraints, properties, weights, maxResults) ==
  Outcome("greedy",
          GreedyLoop(SortByScore(AllPairs("greedy", properties, constraints,
                                          weights)),
                     1, {}, {}, <<>>, maxResults),
          constraints)

\* --- revision "lp_solver" ------------------------------------------------
\* solver.Solve(model) for the model linearProgrammingAssignment builds:
\* maximise sum(score[id] * x[id]) subject to sum(x[id]) <= maxResults, x[id]
\* a non-negative integer.  The rows model.constraints[id] = {max: 1} have a
\* coefficient in no variable, so they bind nothing.  Every score in the
\* model is >= minMatchThreshold > 0, hence a basic optimal solution puts
\* maxResults on one variable of highest score; solverTie says which one the
\* library picks among equals.
SolveModel(propertyIdList, propertyScoreMap, maxResults, solverTie) ==
  LET n == Len(propertyIdList)
      IsTop(i) ==
        \A j \in 1..n : RLe(propertyScoreMap[propertyIdList[j]],
                            propertyScoreMap[propertyIdList[i]])
      top == {i \in 1..n : IsTop(i)}
      pick == IF solverTie = "first"
              THEN CHOOSE i \in top : \A j \in top : i <= j
              ELSE CHOOSE i \in top : \A j \in top : j <= i
  IN  [id \in SeqRange(propertyIdList) |->
        IF n > 0 /\ maxResults > 0 /\ id = propertyIdList[pick]
        THEN maxResults ELSE 0]

\* propertyIdList and propertyScoreMap of the pairs in the model
PropertyIdList(pairs) == [i \in 1..Len(pairs) |-> pairs[i].property.id]

PropertyScoreMap(pairs) ==
  [id \in {pairs[i].property.id : i \in 1..Len(pairs)} |->
    (CHOOSE p \in SeqRange(pairs) : p.property.id = id).score]

\* The pairs whose variable is >= 0.5 in the solver's results
ParseResults(pairs, results) ==
  LET Selected(pair) == 2 * results[pair.property.id] >= 1
  IN  SelectSeq(pairs, Selected)

\* Steps 2 to 4 of linearProgrammingAssignment for the pairs in the model
SolveAndParse(pairs, constraints, maxResults, solverTie) ==
  Outcome("lp_solver",
          ParseResults(pairs,
                       SolveModel(PropertyIdList(pairs),
                                  PropertyScoreMap(pairs), maxResults,
                                  solverTie)),
          constraints)

linearProgrammingAssignment(constraints, properties, weights, maxResults, solverTie) ==
  SolveAndParse(AllPairs("lp_solver", properties, constraints, weights),
                constraints, maxResults, solverTie)

\* --- revision "lp_matrix" ------------------------------------------------
\* One column of buildConstraintMatrix: the six 0/1 entries of a property
ConstraintBits(withinBudget, d) ==
  LET Bit(b) == IF b THEN 1 ELSE 0
  IN  <<Bit(withinBudget),
        Bit(RLt(RInt(30), d.locationScore)),
        Bit(RLt(RInt(50), d.amenityScore)),
        Bit(RLt(RInt(30), d.sizeScore)),
        Bit(RLt(RInt(30), d.featureScore)),
        Bit(RLt(RInt(30), d.utilityScore))>>

ConstraintColumn(property, constraints) ==
  ConstraintBits(property.rent >= constraints.budget.min
                   /\ property.rent <= constraints.budget.max,
                 ScoreDetails("lp_matrix", property, constraints))

buildConstraintMatrix(properties, constraints) ==
  [j \in 1..Len(properties) |-> ConstraintColumn(properties[j], constraints)]

checkFeasibility(constraintMatrix, propertyIndex) ==
  SumSeq(constraintMatrix[propertyIndex]) >= 4

MaxSelections == 10

\* The selection loop of solveLPProblem over the sorted items
RECURSIVE SelectLoop(_, _, _, _)
SelectLoop(items, i, selected, maxSelections) ==
  IF i > Len(items) \/ Cardinality(selected) >= maxSelections THEN selected
  ELSE IF items[i].feasible /\ RLe(RInt(minMatchThreshold), items[i].score)
       THEN SelectLoop(items, i + 1, selected \cup {items[i].index},
                       maxSelections)
       ELSE SelectLoop(items, i + 1, selected, maxSelections)

solveLPProblem(constraintMatrix, objectiveVector) ==
  LET numProperties == Len(objectiveVector)
      propertyScores ==
        [i \in 1..numProperties |->
          [index |-> i, score |-> objectiveVector[i],
           feasible |-> checkFeasibility(constraintMatrix, i)]]
      Before(a, b) ==
        IF a.feasible /\ ~b.feasible THEN TRUE
        ELSE IF ~a.feasible /\ b.feasible THEN FALSE
        ELSE RLt(b.score, a.score)
      sorted ==
        StableSort(propertyScores,
          [i \in 1..numProperties |->
            [j \in 1..numProperties |->
              Before(propertyScores[i], propertyScores[j])]])
      maxSelections ==
        IF numProperties < MaxSelections THEN numProperties ELSE MaxSelections
      selected == SelectLoop(sorted, 1, {}, maxSelections)
  IN  [i \in 1..numProperties |-> IF i \in selected THEN 1 ELSE 0]

\* sort((a, b) => b.matchScore - a.matchScore)
\* The comparator reversed: (a, b) => a.matchScore - b.matchScore
SortByMatchScore_Ascending(matches) ==
  StableSort(matches,
    [i \in 1..Len(matches) |->
      [j \in 1..Len(matches) |->
        matches[i].matchScore < matches[j].matchScore]])

SortByMatchScore(matches) ==
  StableSort(matches,
    [i \in 1..Len(matches) |->
      [j \in 1..Len(matches) |->
        matches[j].matchScore < matches[i].matchScore]])

\* The selected properties whose score clears the threshold, in index order
SelectedPairs(solution, properties, constraints, weights) ==
  LET Scored ==
        [i \in 1..Len(solution) |->
          [tenantId |-> constraints.tenantId,
           property |-> properties[i],
           score |-> calculateSatisfactionScore("lp_matrix", properties[i],
                                                constraints, weights),
           selected |-> solution[i] > 0]]
      Kept(pair) ==
        pair.selected /\ RLe(RInt(minMatchThreshold), pair.score)
  IN  SelectSeq(Scored, Kept)

\* matches.sort(...).slice(0, maxResults)
SortAndSlice(out, maxResults) ==
  [threw |-> out.threw,
   matches |-> SliceFirst(SortByMatchScore(out.matches), maxResults)]

convertSolutionToMatches(solution, properties, constraints, weights, maxResults) ==
  SortAndSlice(Outcome("lp_matrix",
                       SelectedPairs(solution, properties, constraints,
                                     weights),
                       constraints),
               maxResults)

matrixAssignment(constraints, properties, weights, maxResults) ==
  LET objectiveVector ==
        [i \in 1..Len(properties) |->
          calculateSatisfactionScore("lp_matrix", properties[i], constraints,
                                     weights)]
      constraintMatrix == buildConstraintMatrix(properties, constraints)
      solution == solveLPProblem(constraintMatrix, objectiveVector)
  IN  convertSolutionToMatches(solution, properties, constraints, weights,
                               maxResults)

\* The assignment step of the deployed revision
Assign(rev, constraints, properties, weights, maxResults, solverTie) ==
  IF rev = "greedy"
  THEN greedyMatchingAlgorithm(constraints, properties, weights, maxResults)
  ELSE IF rev = "lp_solver"
  THEN linearProgrammingAssignment(constraints, properties, weights,
                                   maxResults, solverTie)
  ELSE matrixAssignment(constraints, properties, weights, maxResults)

\* ------------------------------------------------------------------------
\* Result construction
\* ------------------------------------------------------------------------
\* validateWeights without the per-component loop
validateWeights_SumOnly(weights) ==
  LET sum == SumSeq([i \in 1..Len(WeightKeys) |-> weights[WeightKeys[i]]])
  IN  IF Abs(sum - 1000) > 10 THEN "weights_sum" ELSE "ok"

validateWeights(weights) ==
  LET sum == SumSeq([i \in 1..Len(WeightKeys) |-> weights[WeightKeys[i]]])
  IN  IF Abs(sum - 1000) > 10 THEN "weights_sum"
      ELSE IF \E i \in 1..Len(WeightKeys) :
                weights[WeightKeys[i]] < 0 \/ weights[WeightKeys[i]] > 1000
           THEN "weight_range"
      ELSE "ok"

\* { ...this.defaultWeights, ...weights }
MergeWeights(overrides) ==
  [k \in SeqRange(WeightKeys) |->
    IF k \in overrides.keys THEN overrides.value[k] ELSE defaultWeights[k]]

\* The comparison made on the sum instead of the average
Avg70_SumOnly(scores) == SumSeq(scores) >= 70

\* scores.reduce((sum, x) => sum + x, 0) / scores.length >= 70
Avg70(scores) == SumSeq(scores) >= 70 * Len(scores)

getConstraintsSatisfied(matches) ==
  LET Column(field) ==
        [i \in 1..Len(matches) |-> matches[i].matchDetails[field]]
  IN  IF Len(matches) = 0 THEN <<>>
      ELSE (IF Avg70(Column("budgetScore")) THEN <<"budget">> ELSE <<>>)
        \o (IF Avg70(Column("locationScore")) THEN <<"location">> ELSE <<>>)
        \o (IF Avg70(Column("amenityScore")) THEN <<"amenities">> ELSE <<>>)
        \o (IF Avg70(Column("sizeScore")) THEN <<"size">> ELSE <<>>)
        \o (IF Avg70(Column("featureScore")) THEN <<"features">> ELSE <<>>)
        \o (IF Avg70(Column("utilityScore")) THEN <<"utilities">> ELSE <<>>)

\* NaN, the value of 0 / 0
NaN == <<0, 0>>

\* calculateObjectiveValue without the guard for an empty list
calculateObjectiveValue_NoGuard(matches) ==
  IF Len(matches) = 0 THEN NaN
  ELSE RDiv(Rat(SumSeq([i \in 1..Len(matches) |-> matches[i].matchScore]),
                Len(matches)),
            R100)

\* calculateObjectiveValue returning avgScore without the division by 100
calculateObjectiveValue_NotNormalized(matches) ==
  IF Len(matches) = 0 THEN R0
  ELSE Rat(SumSeq([i \in 1..Len(matches) |-> matches[i].matchScore]),
           Len(matches))

calculateObjectiveValue(matches) ==
  IF Len(matches) = 0 THEN R0
  ELSE RDiv(Rat(SumSeq([i \in 1..Len(matches) |-> matches[i].matchScore]),
                Len(matches)),
            R100)

AlgorithmName(rev) ==
  IF rev = "greedy" THEN "greedy_matching" ELSE "linear_programming"

EmptyAlgorithmName(rev) ==
  IF rev = "lp_matrix" THEN "linear_programming" ELSE "greedy_matching"

createEmptyResult(rev, executionTime) ==
  [matches |-> <<>>,
   algorithm |-> EmptyAlgorithmName(rev),
   executionTime |-> executionTime,
   constraintsSatisfied |-> <<>>,
   objectiveValue |-> R0,
   totalPropertiesEvaluated |-> 0,
   feasibleSolutions |-> 0]

MakeResult(rev, matches, properties, executionTime) ==
  [matches |-> matches,
   algorithm |-> AlgorithmName(rev),
   executionTime |-> executionTime,
   constraintsSatisfied |-> getConstraintsSatisfied(matches),
   objectiveValue |-> calculateObjectiveValue(matches),
   totalPropertiesEvaluated |-> Len(properties),
   feasibleSolutions |-> Len(matches)]

\* ------------------------------------------------------------------------
\* Telemetry store
\* ------------------------------------------------------------------------
\* Array.prototype.slice(-n)
SliceLast(s, n) == IF Len(s) <= n THEN s ELSE SubSeq(s, Len(s) - n + 1, Len(s))

\* { ...metrics, timestamp: new Date() }
fullMetrics(record, date) == [timestamp |-> date] @@ record

\* recordMetrics writing over the newest record, as an append computed from
\* a stale length would
recordMetrics_Overwrite(store, record) ==
  IF Len(store) = 0 THEN <<record>>
  ELSE [store EXCEPT ![Len(store)] = record]

\* recordMetrics keeping the first maxMetricsHistory records: slice(0, max)
recordMetrics_KeepOldest(store, record) ==
  SliceFirst(Append(store, record), maxMetricsHistory)

recordMetrics(store, record) ==
  LET pushed == Append(store, record)
  IN  IF Len(pushed) > maxMetricsHistory
      THEN SliceLast(pushed, maxMetricsHistory)
      ELSE pushed

\* Number division: 0 / 0 is NaN (no caller divides a non-zero sum by zero)
Mean(sum, count) == IF count = 0 THEN NaN ELSE RDiv(sum, RInt(count))

IsNaN(x) == x[2] = 0

\* a > b on numbers: false when either side is NaN
NumGt(a, b) == ~IsNaN(a) /\ ~IsNaN(b) /\ RLt(b, a)

\* reduce((sum, x) => sum + x, 0) over a long list, summed by halves
RECURSIVE SumBetween(_, _, _)
SumBetween(s, from, to) ==
  IF from > to THEN 0
  ELSE IF from = to THEN s[from]
  ELSE SumBetween(s, from, (from + to) \div 2)
         + SumBetween(s, (from + to) \div 2 + 1, to)

Total(s) == SumBetween(s, 1, Len(s))

RECURSIVE RSumBetween(_, _, _)
RSumBetween(s, from, to) ==
  IF from > to THEN R0
  ELSE IF from = to THEN s[from]
  ELSE RAdd(RSumBetween(s, from, (from + to) \div 2),
            RSumBetween(s, (from + to) \div 2 + 1, to))

RSum(s) == RSumBetween(s, 1, Len(s))

Succeeded(m) == m.success

ExecutionTimes(runList) == [i \in 1..Len(runList) |-> runList[i].executionTime]

ObjectiveValues(runList) ==
  [i \in 1..Len(runList) |-> runList[i].objectiveValue]

MemoryUsages(runList) == [i \in 1..Len(runList) |-> runList[i].memoryUsage]

\* (successfulRuns.length / total) * 100
Percentage(part, total) == Rat(part * 100, total)

\* The means taken over all records of the algorithm, failures included
AlgorithmStats_MeanOverAll(algorithm, algorithmMetrics, successfulRuns) ==
  [algorithm |-> algorithm,
   averageExecutionTime |->
     Mean(RInt(Total(ExecutionTimes(algorithmMetrics))), Len(algorithmMetrics)),
   successRate |-> Percentage(Len(successfulRuns), Len(algorithmMetrics)),
   averageObjectiveValue |->
     Mean(RSum(ObjectiveValues(algorithmMetrics)), Len(algorithmMetrics)),
   totalRuns |-> Len(algorithmMetrics),
   lastRun |-> algorithmMetrics[Len(algorithmMetrics)].timestamp]

AlgorithmStats(algorithm, algorithmMetrics, successfulRuns) ==
  [algorithm |-> algorithm,
   averageExecutionTime |->
     Mean(RInt(Total(ExecutionTimes(successfulRuns))), Len(successfulRuns)),
   successRate |-> Percentage(Len(successfulRuns), Len(algorithmMetrics)),
   averageObjectiveValue |->
     Mean(RSum(ObjectiveValues(successfulRuns)), Len(successfulRuns)),
   totalRuns |-> Len(algorithmMetrics),
   lastRun |-> algorithmMetrics[Len(algorithmMetrics)].timestamp]

AlgorithmMetrics(store, algorithm) ==
  LET Same(m) == m.algorithm = algorithm IN SelectSeq(store, Same)

\* lastRun of an algorithm without records is new Date(0), here day -1
getAlgorithmPerformance(store, algorithm) ==
  IF Len(AlgorithmMetrics(store, algorithm)) = 0
  THEN [algorithm |-> algorithm, averageExecutionTime |-> R0,
        successRate |-> R0, averageObjectiveValue |-> R0, totalRuns |-> 0,
        lastRun |-> -1]
  ELSE AlgorithmStats(algorithm, AlgorithmMetrics(store, algorithm),
                      SelectSeq(AlgorithmMetrics(store, algorithm), Succeeded))

\* [...new Set(this.metrics.map(m => m.algorithm))]: the algorithms of the
\* store in the order of their first record
FirstRecord(store, algorithm) ==
  CHOOSE i \in 1..Len(store) :
    /\ store[i].algorithm = algorithm
    /\ \A j \in 1..(i - 1) : store[j].algorithm # algorithm

RECURSIVE InOrder(_, _)
InOrder(names, position) ==
  IF names = {} THEN <<>>
  ELSE LET first == CHOOSE a \in names :
                      \A b \in names : position[a] <= position[b]
       IN  <<first>> \o InOrder(names \ {first}, position)

UniqueAlgorithms(store) ==
  LET names == {store[i].algorithm : i \in 1..Len(store)}
  IN  InOrder(names, [a \in names |-> FirstRecord(store, a)])

OverallStats(store, successfulRuns) ==
  [totalOptimizations |-> Len(store),
   averageExecutionTime |->
     IF Len(successfulRuns) > 0
     THEN Mean(RInt(Total(ExecutionTimes(successfulRuns))),
               Len(successfulRuns))
     ELSE R0,
   successRate |->
     IF Len(store) > 0 THEN Percentage(Len(successfulRuns), Len(store))
     ELSE R0,
   algorithmBreakdown |->
     [i \in 1..Len(UniqueAlgorithms(store)) |->
       getAlgorithmPerformance(store, UniqueAlgorithms(store)[i])]]

getOverallPerformance(store) == OverallStats(store, SelectSeq(store, Succeeded))

DailyStats(date, dayMetrics, successfulRuns) ==
  [date |-> date,
   optimizations |-> Len(dayMetrics),
   averageExecutionTime |->
     IF Len(successfulRuns) > 0
     THEN Mean(RInt(Total(ExecutionTimes(successfulRuns))),
               Len(successfulRuns))
     ELSE R0,
   successRate |->
     IF Len(dayMetrics) > 0
     THEN Percentage(Len(successfulRuns), Len(dayMetrics))
     ELSE R0]

DayMetrics(recentMetrics, date) ==
  LET OnDate(m) == m.timestamp = date IN SelectSeq(recentMetrics, OnDate)

RECURSIVE Ascending(_)
Ascending(dates) ==
  IF dates = {} THEN <<>>
  ELSE LET first == CHOOSE d \in dates : \A e \in dates : d <= e
       IN  <<first>> \o Ascending(dates \ {first})

Trends(recentMetrics, dates) ==
  [i \in 1..Len(dates) |->
    DailyStats(dates[i], DayMetrics(recentMetrics, dates[i]),
               SelectSeq(DayMetrics(recentMetrics, dates[i]), Succeeded))]

\* The filter on the cutoff date left out
RecentMetrics_All(store, cutoffDate) ==
  LET Recent(m) == TRUE IN SelectSeq(store, Recent)

RecentMetrics(store, cutoffDate) ==
  LET Recent(m) == m.timestamp >= cutoffDate IN SelectSeq(store, Recent)

\* One entry per calendar day with a record since the cutoff, sorted by date
getPerformanceTrends(store, days, today) ==
  Trends(RecentMetrics(store, today - days),
         Ascending({RecentMetrics(store, today - days)[i].timestamp :
                      i \in 1..Len(RecentMetrics(store, today - days))}))

MaxOf(s) == CHOOSE x \in SeqRange(s) : \A y \in SeqRange(s) : y <= x

MemoryTrend(firstHalfAvg, secondHalfAvg) ==
  IF NumGt(firstHalfAvg, R0)
  THEN RMul(RDiv(RSub(secondHalfAvg, firstHalfAvg), firstHalfAvg), R100)
  ELSE R0

MemoryStats(usages, midPoint) ==
  [averageMemoryUsage |-> Mean(RInt(Total(usages)), Len(usages)),
   peakMemoryUsage |-> MaxOf(usages),
   memoryTrend |->
     MemoryTrend(Mean(RInt(Total(SubSeq(usages, 1, midPoint))), midPoint),
                 Mean(RInt(Total(SubSeq(usages, midPoint + 1, Len(usages)))),
                      Len(usages) - midPoint))]

MeasuredRuns(store) ==
  LET Measured(m) == m.success /\ m.memoryUsage > 0
  IN  SelectSeq(store, Measured)

getMemoryUsageStats(store) ==
  IF Len(MeasuredRuns(store)) = 0
  THEN [averageMemoryUsage |-> R0, peakMemoryUsage |-> 0, memoryTrend |-> R0]
  ELSE MemoryStats(MemoryUsages(MeasuredRuns(store)),
                   Len(MeasuredRuns(store)) \div 2)

clearOldMetrics(store, daysToKeep, today) ==
  RecentMetrics(store, today - daysToKeep)

\* [...this.metrics]
exportMetrics(store) == store

\* Math.max(0, 100 - (avgExecutionTime / 1000) * 30)
executionTimeScore(avgExecutionTime) ==
  RMax(R0, RSub(R100, RMul(RDiv(avgExecutionTime, RInt(1000)), RInt(30))))

\* Math.min(30, (avgObjectiveValue / 100) * 30)
objectiveValueScore(avgObjectiveValue) ==
  RMin(RInt(30), RMul(RDiv(avgObjectiveValue, R100), RInt(30)))

\* successRate * 0.4
successRateScore(successRate) == RMul(successRate, Rat(4, 10))

EfficiencyOf(recentMetrics, successfulRuns) ==
  MathRound(
    RAdd(successRateScore(Percentage(Len(successfulRuns), Len(recentMetrics))),
         RAdd(executionTimeScore(
                IF Len(successfulRuns) > 0
                THEN Mean(RInt(Total(ExecutionTimes(successfulRuns))),
                          Len(successfulRuns))
                ELSE R0),
              objectiveValueScore(
                IF Len(successfulRuns) > 0
                THEN Mean(RSum(ObjectiveValues(successfulRuns)),
                          Len(successfulRuns))
                ELSE R0))))

getEfficiencyScore(store) ==
  IF Len(SliceLast(store, 100)) = 0 THEN 0
  ELSE EfficiencyOf(SliceLast(store, 100),
                    SelectSeq(SliceLast(store, 100), Succeeded))

\* ------------------------------------------------------------------------
\* Inputs: documents of the Property collection and requests
\* ------------------------------------------------------------------------
Lagos == <<"L", "a", "g", "o", "s">>

Yaba == <<"Y", "a", "b", "a">>

\* A location that matches "Ikeja" as a regular expression only
IkejaPattern == <<"I", "k", ".", "j", "a">>

Ikeja == <<"I", "k", "e", "j", "a">>

LagosRd == <<"L", "a", "g", "o", "s", " ", "R", "d">>

LagosIsland == <<"L", "a", "g", "o", "s", " ", "I", "s", "l", "a", "n", "d">>

\* A preferred location as typed by a user, with a regular-expression
\* metacharacter
LagosDotIsland == <<"L", "a", "g", "o", "s", ".", "I", "s", "l", "a", "n", "d">>

Parking == <<"p", "a", "r", "k", "i", "n", "g">>

Security == <<"s", "e", "c", "u", "r", "i", "t", "y">>

Gym == <<"g", "y", "m">>

NoFlags == [present |-> FALSE, on |-> {}]

Flags(on) == [present |-> TRUE, on |-> on]

PropertyDoc(id, status, rent, bedrooms, bathrooms, city, address, amenities, size, features, utilities) ==
  [id |-> id, status |-> status, rent |-> rent, bedrooms |-> bedrooms,
   bathrooms |-> bathrooms, location |-> [city |-> city, address |-> address],
   amenities |-> amenities, size |-> size, features |-> features,
   utilities |-> utilities]

Catalogue ==
  <<PropertyDoc(1, "available", 90000, 2, 1, LagosIsland, Ikeja,
                <<Parking, Security>>, 60, Flags({"parking"}),
                Flags({"electricity", "water"})),
    PropertyDoc(2, "available", 91000, 2, 1, LagosIsland, Ikeja,
                <<Parking, Security>>, 60, Flags({"parking"}),
                Flags({"electricity", "water"})),
    PropertyDoc(3, "available", 140000, 3, 2, Yaba, LagosRd,
                <<Gym>>, 10, NoFlags, NoFlags),
    PropertyDoc(4, "occupied", 90000, 2, 1, Lagos, Ikeja,
                <<Parking>>, 0, Flags({}), Flags({"electricity"}))>>

\* The collections the process can run against: documents with distinct
\* ids, in natural order
DistinctSeqs(S, n) ==
  {q \in UNION {[1..k -> S] : k \in 0..n} :
     \A i, j \in 1..Len(q) : i # j => q[i] # q[j]}

Pools ==
  {[i \in 1..Len(q) |-> Catalogue[q[i]]] :
     q \in DistinctSeqs(1..Len(Catalogue), MaxPool)}

Constraints(tenantId, min, max, location, amenities, bedrooms, bathrooms, features, utilities) ==
  [tenantId |-> tenantId, budget |-> [min |-> min, max |-> max],
   location |-> location, amenities |-> amenities, bedrooms |-> bedrooms,
   bathrooms |-> bathrooms, features |-> features, utilities |-> utilities]

\* Requests: the scenarios of OptimizationTester (with the number of matches
\* each expects) and the edge case "Empty Constraints"
Scenarios ==
  <<[constraints |->
       Constraints("t1", 50000, 150000, Lagos, <<Parking>>, 2, 1,
                   NoFlags, NoFlags),
     expectedMinMatches |-> 1],
    [constraints |->
       Constraints("", 50000, 150000, LagosDotIsland, <<>>, 1, 1,
                   Flags({"parking"}), NoFlags),
     expectedMinMatches |-> 0],
    [constraints |->
       Constraints("", 0, 0, <<>>, <<>>, 0, 0, NoFlags, NoFlags),
     expectedMinMatches |-> 0],
    [constraints |->
       Constraints("t1", 0, 200000, <<>>, <<>>, 1, 1, Flags({}), NoFlags),
     expectedMinMatches |-> 1],
    [constraints |->
       Constraints("t2", 100000, 200000, Yaba, <<>>, 1, 1,
                   Flags({"parking"}), NoFlags),
     expectedMinMatches |-> 0],
    [constraints |->
       Constraints("t4", 50000, 150000, IkejaPattern,
                   <<Parking, Security, Gym>>, 2, 1,
                   Flags({"parking", "furnished"}),
                   Flags({"electricity", "gas"})),
     expectedMinMatches |-> 0]>>

\* OptimizationTester.testScenarios: the scenarios the script runs and records
testScenarios == <<Scenarios[1], Scenarios[4]>>

expectedMaxExecutionTime == 5000

TesterMaxResults == 10

\* Weight overrides a caller can send (thousandths): the keys it sets and
\* their values
Override(keys, budget, location, amenities, size, features, utilities) ==
  [keys |-> keys,
   value |-> [budget |-> budget, location |-> location,
              amenities |-> amenities, size |-> size, features |-> features,
              utilities |-> utilities]]

AllKeys == {"budget", "location", "amenities", "size", "features", "utilities"}

WeightOverrides ==
  {Override({}, 0, 0, 0, 0, 0, 0),
   Override(AllKeys, 0, 0, 0, 1000, 0, 0),
   Override({"utilities"}, 0, 0, 0, 0, 0, 105),
   Override({"budget"}, 500, 0, 0, 0, 0, 0),
   Override(AllKeys, 1100, 0 - 100, 0, 0, 0, 0)}

DefaultMaxProperties == 100

\* MAX_PROPERTIES_PER_OPTIMIZATION: unset, or set to a small cap
MaxPropertiesSettings == {1, DefaultMaxProperties}

\* One step of the clock: longer than the time budget of a run
TickMs == maxExecutionTime + 10000

\* Tenant collection read by optimizeTenantMatching: empty, two tenants, one
\* with the preferences of the first request and one far from the catalogue,
\* or two tenants with the same preferences
TenantDoc(id, scenario) == [id |-> id, preferences |-> scenario.constraints]

\* Preferences of a tenant far from the documents of the catalogue
RemotePreferences ==
  [constraints |->
     Constraints("t3", 0, 50000, Yaba, <<Gym>>, 1, 1, NoFlags,
                 Flags({"water"}))]

TenantCollections ==
  {<<>>,
   <<TenantDoc("t1", Scenarios[1]), TenantDoc("t3", RemotePreferences)>>,
   <<TenantDoc("t1", Scenarios[1]), TenantDoc("t2", Scenarios[1])>>}

\* ------------------------------------------------------------------------
\* State
\* ------------------------------------------------------------------------
VARIABLES
  host,          \* "server" (optimizationController) or "script" (OptimizationTester)
  revision,      \* deployed revision of LinearProgrammingService
  solverTie,     \* tie rule of the LP library (revision "lp_solver")
  maxProperties, \* MAX_PROPERTIES_PER_OPTIMIZATION
  pool,          \* Property collection, natural order
  tenants,       \* Tenant collection
  pc,            \* "idle", "fetching", "done", "failed"
  op,            \* "none", "optimize", "reverse"
  req,           \* arguments of the call in progress
  elapsed,       \* Date.now() - startTime of the call in progress
  queries,       \* collection queries issued by the call in progress
  properties,    \* eligible properties of the call in progress
  result,        \* value the call resolved with
  error,         \* reason the call rejected with
  metrics,       \* PerformanceMonitoringService.metrics
  metricsAtCall, \* Len(metrics) when the call in progress began
  earlier,       \* number of records the store received before the behaviour
  submitted,     \* records passed to recordMetrics, in the order of the calls
  now,           \* wall clock, in days
  runs,          \* measured runs in progress that will record to the store
  answer,        \* last query on the store and the value it returned
  calls          \* invocations of optimizeMatching in flight at once

vars ==
  <<host, revision, solverTie, maxProperties, pool, tenants, pc, op, req,
    elapsed, queries, properties, result, error, metrics, metricsAtCall,
    earlier, submitted, now, runs, answer, calls>>

config == <<host, revision, solverTie, maxProperties, pool, tenants>>

\* State of the monitoring service's clients other than the store
monitor == <<earlier, now, runs, answer, calls>>

NoReq ==
  [constraints |-> Scenarios[3].constraints,
   overrides |-> Override({}, 0, 0, 0, 0, 0, 0),
   maxResults |-> 0, expectedMinMatches |-> 0, property |-> 0]

NoResult == createEmptyResult("greedy", 0)

NoAnswer == [call |-> "none", value |-> 0]

\* Invocations of optimizeMatching that overlap in time
Invocations == {1, 2}

\* An invocation: the caller's arguments (asked) and the locals of
\* optimizeMatching (constraints and weights in req, properties, the result)
NoCall ==
  [pc |-> "idle", asked |-> NoReq, req |-> NoReq, properties |-> <<>>,
   result |-> NoResult, error |-> ""]

Init ==
  /\ host \in {"server", "script"}
  /\ revision \in Revisions
  /\ solverTie \in (IF revision = "lp_solver" THEN {"first", "last"}
                    ELSE {"first"})
  /\ maxProperties \in MaxPropertiesSettings
  /\ pool \in Pools
  /\ tenants \in (IF host = "server" THEN TenantCollections ELSE {<<>>})
  /\ pc = "idle"
  /\ op = "none"
  /\ req = NoReq
  /\ elapsed = 0
  /\ queries = 0
  /\ properties = <<>>
  /\ result = NoResult
  /\ error = ""
  /\ metrics = <<>>
  /\ metricsAtCall = 0
  /\ earlier = 0
  /\ submitted = <<>>
  /\ now = 0
  /\ runs = <<>>
  /\ answer = NoAnswer
  /\ calls = [c \in Invocations |-> NoCall]

\* ------------------------------------------------------------------------
\* optimizeMatching
\* ------------------------------------------------------------------------
\* From the call to the first await: merge and validate the weights, then
\* issue the candidate query
Begin(r) ==
  LET finalWeights == MergeWeights(r.overrides)
      check == validateWeights(finalWeights)
  IN  /\ pc = "idle"
      /\ op' = "optimize"
      /\ req' = r
      /\ elapsed' = 0
      /\ metricsAtCall' = Len(metrics)
      /\ IF check = "ok"
         THEN /\ pc' = "fetching"
              /\ queries' = 1
              /\ error' = ""
         ELSE /\ pc' = "failed"
              /\ queries' = 0
              /\ error' = check
      /\ UNCHANGED <<config, monitor, submitted, properties, result, metrics>>

\* optimizationController.optimize: POST /api/optimization
OptimizeMatching ==
  /\ host = "server"
  /\ \E i \in 1..Len(Scenarios), w \in WeightOverrides,
        m \in 1..MaxResultsBound :
       Begin([constraints |-> Scenarios[i].constraints, overrides |-> w,
              maxResults |-> m, expectedMinMatches |-> 0, property |-> 0])

\* OptimizationTester.runTestScenario: the scenarios run once each, in order
RunTestScenario ==
  /\ host = "script"
  /\ Len(metrics) < Len(testScenarios)
  /\ LET scenario == testScenarios[Len(metrics) + 1]
     IN  Begin([constraints |-> scenario.constraints,
                overrides |-> Override({}, 0, 0, 0, 0, 0, 0),
                maxResults |-> TesterMaxResults,
                expectedMinMatches |-> scenario.expectedMinMatches,
                property |-> 0])

\* Wall-clock time passes while a query is awaited
Tick ==
  /\ pc = "fetching"
  /\ elapsed < MaxTicks * TickMs
  /\ elapsed' = elapsed + TickMs
  /\ UNCHANGED <<config, monitor, submitted, pc, op, req, queries,
                 properties, result, error,
                 metrics, metricsAtCall>>

\* optimizeMatching from the eligible list and the outcome of the assignment
\* step to its return or throw
Complete(fetched, out) ==
  /\ properties' = fetched
  /\ IF Len(fetched) = 0
     THEN /\ result' = createEmptyResult(revision, elapsed)
          /\ pc' = "done"
          /\ error' = ""
     ELSE IF out.threw
     THEN /\ result' = result
          /\ pc' = "failed"
          /\ error' = "type_error"
     ELSE /\ result' = MakeResult(revision, out.matches, fetched, elapsed)
          /\ pc' = "done"
          /\ error' = ""

AssignAndComplete(fetched) ==
  Complete(fetched,
           Assign(revision, req.constraints, fetched,
                  MergeWeights(req.overrides), req.maxResults, solverTie))

\* The candidate query resolves: the rest of optimizeMatching
FetchResolves ==
  /\ pc = "fetching"
  /\ op = "optimize"
  /\ AssignAndComplete(fetchEligibleProperties(pool, req.constraints,
                                               maxProperties))
  /\ UNCHANGED <<config, monitor, submitted, op, req, elapsed, queries,
                 metrics, metricsAtCall>>

\* The candidate query rejects: optimizeMatching rethrows
FetchRejects ==
  /\ pc = "fetching"
  /\ op = "optimize"
  /\ pc' = "failed"
  /\ error' = "query_failed"
  /\ UNCHANGED <<config, monitor, submitted, op, req, elapsed, queries,
                 properties, result,
                 metrics, metricsAtCall>>

\* ------------------------------------------------------------------------
\* optimizeTenantMatching
\* ------------------------------------------------------------------------
OptimizeTenantMatching ==
  /\ host = "server"
  /\ pc = "idle"
  /\ \E i \in 1..Len(Catalogue), m \in 1..MaxResultsBound :
       req' = [NoReq EXCEPT !.property = i, !.maxResults = m]
  /\ op' = "reverse"
  /\ pc' = "fetching"
  /\ queries' = 1
  /\ elapsed' = 0
  /\ error' = ""
  /\ metricsAtCall' = Len(metrics)
  /\ UNCHANGED <<config, monitor, submitted, properties, result, metrics>>

ReverseMatches(rev, property, tenantDocs, maxResults) ==
  LET tenantScores ==
        [i \in 1..Len(tenantDocs) |->
          [tenantId |-> tenantDocs[i].id,
           position |-> i,
           matchScore |->
             MathRound(calculateSatisfactionScore(rev, property,
                         tenantDocs[i].preferences, defaultWeights))]]
      Clears(t) == t.matchScore >= minMatchThreshold
  IN  SliceFirst(SortByMatchScore(SelectSeq(tenantScores, Clears)),
                 maxResults)

TenantsResolve ==
  /\ pc = "fetching"
  /\ op = "reverse"
  /\ LET matches == ReverseMatches(revision, Catalogue[req.property], tenants,
                                   req.maxResults)
     IN  result' =
           IF Len(tenants) = 0
           THEN [matches |-> <<>>, algorithm |-> "", executionTime |-> elapsed,
                 matchesFound |-> 0, totalTenantsEvaluated |-> 0]
           ELSE [matches |-> matches, algorithm |-> "reverse_match",
                 executionTime |-> elapsed, matchesFound |-> Len(matches),
                 totalTenantsEvaluated |-> Len(tenants)]
  /\ pc' = "done"
  /\ UNCHANGED <<config, monitor, submitted, op, req, elapsed, queries,
                 properties, error,
                 metrics, metricsAtCall>>

TenantsReject ==
  /\ pc = "fetching"
  /\ op = "reverse"
  /\ pc' = "failed"
  /\ error' = "query_failed"
  /\ UNCHANGED <<config, monitor, submitted, op, req, elapsed, queries,
                 properties, result,
                 metrics, metricsAtCall>>

\* ------------------------------------------------------------------------
\* Callers
\* ------------------------------------------------------------------------
Idle ==
  /\ pc' = "idle"
  /\ op' = "none"
  /\ req' = NoReq
  /\ elapsed' = 0
  /\ queries' = 0
  /\ properties' = <<>>
  /\ result' = NoResult
  /\ error' = ""

\* The controller sends the response (200 with the result, or 500)
Respond ==
  /\ host = "server"
  /\ pc \in {"done", "failed"}
  /\ Idle
  /\ UNCHANGED <<config, monitor, submitted, metrics, metricsAtCall>>

validateTestResult(res, r) ==
  /\ ~(res.executionTime > expectedMaxExecutionTime)
  /\ ~(r.expectedMinMatches > 0 /\ Len(res.matches) < r.expectedMinMatches)
  /\ ~RLt(res.objectiveValue, R0)
  /\ ~(Len(res.constraintsSatisfied) = 0 /\ Len(res.matches) > 0)

\* runTestScenario after the call settled: one record, success or failure
TestRunRecord ==
  IF pc = "done"
  THEN [executionTime |-> elapsed,
        algorithm |-> "test_optimization",
        propertiesEvaluated |-> result.totalPropertiesEvaluated,
        matchesFound |-> Len(result.matches),
        objectiveValue |-> result.objectiveValue,
        success |-> validateTestResult(result, req),
        error |-> ""]
  ELSE [executionTime |-> elapsed,
        algorithm |-> "test_optimization",
        propertiesEvaluated |-> 0,
        matchesFound |-> 0,
        objectiveValue |-> R0,
        success |-> FALSE,
        error |-> error]

RecordTestRun ==
  /\ host = "script"
  /\ pc \in {"done", "failed"}
  /\ metrics' = recordMetrics(metrics, fullMetrics(TestRunRecord, now))
  /\ submitted' = Append(submitted, fullMetrics(TestRunRecord, now))
  /\ Idle
  /\ UNCHANGED <<config, monitor, metricsAtCall>>

Next ==
  \/ OptimizeMatching
  \/ RunTestScenario
  \/ Tick
  \/ FetchResolves
  \/ FetchRejects
  \/ OptimizeTenantMatching
  \/ TenantsResolve
  \/ TenantsReject
  \/ Respond
  \/ RecordTestRun

Spec == Init /\ [][Next]_vars

\* ------------------------------------------------------------------------
\* Scenario "Basic Budget Constraint" against a collection of one document
\* ------------------------------------------------------------------------
ScenarioSizes == {0, 30, 60, 100, 150, 400}

\* The candidate of the scenario, of any recorded size or of none (0)
ScenarioCandidate(size) ==
  PropertyDoc(5, "available", 90000, 2, 1, Lagos, Ikeja,
              <<Parking, Security>>, size, Flags({}), Flags({}))

ScenarioInit ==
  /\ host \in {"server", "script"}
  /\ revision \in Revisions
  /\ solverTie \in (IF revision = "lp_solver" THEN {"first", "last"}
                    ELSE {"first"})
  /\ maxProperties \in MaxPropertiesSettings
  /\ pool \in {<<ScenarioCandidate(size)>> : size \in ScenarioSizes}
  /\ tenants \in (IF host = "server" THEN TenantCollections ELSE {<<>>})
  /\ pc = "idle"
  /\ op = "none"
  /\ req = NoReq
  /\ elapsed = 0
  /\ queries = 0
  /\ properties = <<>>
  /\ result = NoResult
  /\ error = ""
  /\ metrics = <<>>
  /\ metricsAtCall = 0
  /\ earlier = 0
  /\ submitted = <<>>
  /\ now = 0
  /\ runs = <<>>
  /\ answer = NoAnswer
  /\ calls = [c \in Invocations |-> NoCall]

ScenarioSpec == ScenarioInit /\ [][Next]_vars

\* ------------------------------------------------------------------------
\* PerformanceMonitoringService and its clients
\* ------------------------------------------------------------------------
MetricFields ==
  {"executionTime", "memoryUsage", "algorithm", "objectiveValue", "success"}

\* Records of runs that reached the store before the behaviour begins
Earlier(i) ==
  [executionTime |-> 1000 * (i % 3),
   memoryUsage |-> (i % 4) - 1,
   algorithm |-> "test_optimization",
   objectiveValue |-> Rat(i % 3, 2),
   success |-> i % 4 # 0,
   timestamp |-> 0]

EarlierRuns(n) == [i \in 1..n |-> Earlier(i)]

EarlierCounts == {0, maxMetricsHistory - 1}

\* Arguments of recordMetrics: a successful run, and a failed run as the
\* catch branch of runTestScenario records it
RecordKinds ==
  {[executionTime |-> 200, memoryUsage |-> 5,
    algorithm |-> "linear_programming", objectiveValue |-> Rat(39, 50),
    success |-> TRUE],
   [executionTime |-> 5000, memoryUsage |-> -2,
    algorithm |-> "test_optimization", objectiveValue |-> R0,
    success |-> FALSE]}

Algorithms == {"test_optimization", "linear_programming", "greedy_matching"}

TrendDays == {0, 7}

DaysToKeep == {0, 30}

\* Clients with a measured run each, which may be in progress at once
Runs == {1, 2}

service ==
  <<config, pc, op, req, elapsed, queries, properties, result, error,
    metricsAtCall, calls>>

TelemetryInit ==
  /\ host = "script"
  /\ revision = "lp_matrix"
  /\ solverTie = "first"
  /\ maxProperties = DefaultMaxProperties
  /\ pool = <<>>
  /\ tenants = <<>>
  /\ pc = "idle"
  /\ op = "none"
  /\ req = NoReq
  /\ elapsed = 0
  /\ queries = 0
  /\ properties = <<>>
  /\ result = NoResult
  /\ error = ""
  /\ earlier \in EarlierCounts
  /\ metrics = EarlierRuns(earlier)
  /\ metricsAtCall = 0
  /\ submitted = <<>>
  /\ now = 0
  /\ runs = [r \in Runs |-> "idle"]
  /\ answer = NoAnswer
  /\ calls = [c \in Invocations |-> NoCall]

\* A client starts a measured run (runTestScenario up to its await)
StartRun(r) ==
  /\ answer.call = "none"
  /\ runs[r] = "idle"
  /\ Len(submitted) + Cardinality({q \in Runs : runs[q] = "running"})
       < MaxAppends
  /\ runs' = [runs EXCEPT ![r] = "running"]
  /\ UNCHANGED <<service, metrics, earlier, submitted, now, answer>>

\* The run settles and its client calls recordMetrics
FinishRun(r) ==
  /\ answer.call = "none"
  /\ runs[r] = "running"
  /\ \E record \in RecordKinds :
       /\ metrics' = recordMetrics(metrics, fullMetrics(record, now))
       /\ submitted' = Append(submitted, fullMetrics(record, now))
  /\ runs' = [runs EXCEPT ![r] = "idle"]
  /\ UNCHANGED <<service, earlier, now, answer>>

DayPasses ==
  /\ answer.call = "none"
  /\ now < MaxDays
  /\ now' = now + 1
  /\ UNCHANGED <<service, metrics, earlier, submitted, runs, answer>>

\* A query that also assigns this.metrics = this.metrics.slice(-100)
Answer_Truncating(call, value) ==
  /\ answer.call = "none"
  /\ answer' = [call |-> call, value |-> value]
  /\ metrics' = SliceLast(metrics, 100)
  /\ UNCHANGED <<service, earlier, submitted, now, runs>>

\* A query runs to completion: its value is with the caller before any other
\* callback runs
Answer(call, value) ==
  /\ answer.call = "none"
  /\ answer' = [call |-> call, value |-> value]
  /\ UNCHANGED <<service, metrics, earlier, submitted, now, runs>>

GetAlgorithmPerformance ==
  \E algorithm \in Algorithms :
    Answer("getAlgorithmPerformance",
           getAlgorithmPerformance(metrics, algorithm))

GetOverallPerformance ==
  Answer("getOverallPerformance", getOverallPerformance(metrics))

GetPerformanceTrends ==
  \E days \in TrendDays :
    Answer("getPerformanceTrends", getPerformanceTrends(metrics, days, now))

GetMemoryUsageStats ==
  Answer("getMemoryUsageStats", getMemoryUsageStats(metrics))

GetEfficiencyScore ==
  Answer("getEfficiencyScore", getEfficiencyScore(metrics))

ExportMetrics == Answer("exportMetrics", exportMetrics(metrics))

ClearOldMetrics ==
  /\ answer.call = "none"
  /\ \E daysToKeep \in DaysToKeep :
       metrics' = clearOldMetrics(metrics, daysToKeep, now)
  /\ UNCHANGED <<service, earlier, submitted, now, runs, answer>>

\* The caller has used the value and returns to the event loop
Return ==
  /\ answer.call # "none"
  /\ answer' = NoAnswer
  /\ UNCHANGED <<service, metrics, earlier, submitted, now, runs>>

TelemetryNext ==
  \/ \E r \in Runs : StartRun(r)
  \/ \E r \in Runs : FinishRun(r)
  \/ DayPasses
  \/ GetAlgorithmPerformance
  \/ GetOverallPerformance
  \/ GetPerformanceTrends
  \/ GetMemoryUsageStats
  \/ GetEfficiencyScore
  \/ ExportMetrics
  \/ ClearOldMetrics
  \/ Return

TelemetrySpec == TelemetryInit /\ [][TelemetryNext]_vars

\* ------------------------------------------------------------------------
\* Overlapping invocations of optimizeMatching on the singleton service
\* ------------------------------------------------------------------------
\* Bodies of POST /api/optimization that arrive while another is served
ConcurrentRequests ==
  {[constraints |-> Scenarios[i].constraints,
    overrides |-> Override({}, 0, 0, 0, 0, 0, 0),
    maxResults |-> m, expectedMinMatches |-> 0, property |-> 0] :
     i \in {1, 6}, m \in 1..MaxResultsBound}

ConcurrentInit ==
  /\ host = "server"
  /\ revision \in Revisions
  /\ solverTie \in (IF revision = "lp_solver" THEN {"first", "last"}
                    ELSE {"first"})
  /\ maxProperties = DefaultMaxProperties
  /\ pool \in Pools
  /\ tenants = <<>>
  /\ pc = "idle"
  /\ op = "none"
  /\ req = NoReq
  /\ elapsed = 0
  /\ queries = 0
  /\ properties = <<>>
  /\ result = NoResult
  /\ error = ""
  /\ metrics = <<>>
  /\ metricsAtCall = 0
  /\ earlier = 0
  /\ submitted = <<>>
  /\ now = 0
  /\ runs = <<>>
  /\ answer = NoAnswer
  /\ calls = [c \in Invocations |-> NoCall]

single ==
  <<config, pc, op, req, elapsed, queries, properties, result, error,
    metrics, metricsAtCall, earlier, submitted, now, runs, answer>>

\* optimizeMatching up to its await, were constraints and weights kept in
\* fields of the singleton: the invocations in flight read the newest ones
Invoke_SharedRequest(c) ==
  /\ calls[c].pc = "idle"
  /\ \E r \in ConcurrentRequests :
       calls' =
         [d \in Invocations |->
           IF d = c
           THEN [NoCall EXCEPT
                   !.asked = r, !.req = r,
                   !.pc = IF validateWeights(MergeWeights(r.overrides)) = "ok"
                          THEN "fetching" ELSE "failed",
                   !.error = IF validateWeights(MergeWeights(r.overrides)) = "ok"
                             THEN ""
                             ELSE validateWeights(MergeWeights(r.overrides))]
           ELSE IF calls[d].pc = "fetching"
                THEN [calls[d] EXCEPT !.req = r]
                ELSE calls[d]]
  /\ UNCHANGED single

\* optimizeMatching from the call to the await of the candidate query
Invoke(c) ==
  /\ calls[c].pc = "idle"
  /\ \E r \in ConcurrentRequests :
       calls' =
         [calls EXCEPT
            ![c] = [NoCall EXCEPT
                      !.asked = r, !.req = r,
                      !.pc = IF validateWeights(MergeWeights(r.overrides)) = "ok"
                             THEN "fetching" ELSE "failed",
                      !.error = IF validateWeights(MergeWeights(r.overrides)) = "ok"
                                THEN ""
                                ELSE validateWeights(MergeWeights(r.overrides))]]
  /\ UNCHANGED single

\* The rest of optimizeMatching on the locals of the invocation
Settle(call, fetched, out) ==
  IF Len(fetched) = 0
  THEN [call EXCEPT !.properties = fetched, !.pc = "done",
                    !.result = createEmptyResult(revision, 0)]
  ELSE IF out.threw
  THEN [call EXCEPT !.properties = fetched, !.pc = "failed",
                    !.error = "type_error"]
  ELSE [call EXCEPT !.properties = fetched, !.pc = "done",
                    !.result = MakeResult(revision, out.matches, fetched, 0)]

AssignAndSettle(call, fetched) ==
  Settle(call, fetched,
         Assign(revision, call.req.constraints, fetched,
                MergeWeights(call.req.overrides), call.req.maxResults,
                solverTie))

\* The candidate query of an invocation resolves
QueryResolves(c) ==
  /\ calls[c].pc = "fetching"
  /\ calls' =
       [calls EXCEPT
          ![c] = AssignAndSettle(calls[c],
                   fetchEligibleProperties(pool, calls[c].req.constraints,
                                           maxProperties))]
  /\ UNCHANGED single

\* The candidate query of an invocation rejects
QueryRejects(c) ==
  /\ calls[c].pc = "fetching"
  /\ calls' = [calls EXCEPT ![c].pc = "failed", ![c].error = "query_failed"]
  /\ UNCHANGED single

\* The controller sends the response of an invocation
Responds(c) ==
  /\ calls[c].pc \in {"done", "failed"}
  /\ calls' = [calls EXCEPT ![c] = NoCall]
  /\ UNCHANGED single

ConcurrentNext ==
  \/ \E c \in Invocations : Invoke(c)
  \/ \E c \in Invocations : QueryResolves(c)
  \/ \E c \in Invocations : QueryRejects(c)
  \/ \E c \in Invocations : Responds(c)

ConcurrentSpec == ConcurrentInit /\ [][ConcurrentNext]_vars

\* ------------------------------------------------------------------------
\* Properties
\* ------------------------------------------------------------------------
Settled == pc \in {"done", "failed"}

OptimizeDone == pc = "done" /\ op = "optimize"

\* Position of a property id in the eligible list of the call in progress
PositionOf(id) == CHOOSE i \in 1..Len(properties) : properties[i].id = id

\* The document of the collection a match refers to
DocOf(id) == CHOOSE d \in SeqRange(pool) : d.id = id

\* Composite score of an eligible property under the request in progress
CompositeOf(property) ==
  calculateSatisfactionScore(revision, property, req.constraints,
                             MergeWeights(req.overrides))

ClearsThreshold(property) ==
  RLe(RInt(minMatchThreshold), CompositeOf(property))

\* C1: every call of optimizeMatching and of optimizeTenantMatching has
\* appended exactly one record to the telemetry store by the time it settles,
\* and the record of a failed call has success = FALSE.
C1_EveryRunRecorded ==
  Settled =>
    /\ Len(metrics) = metricsAtCall + 1
    /\ pc = "failed" => ~metrics[Len(metrics)].success

C2_MergedWeights ==
  [k \in AllKeys |->
    IF k \in req.overrides.keys THEN req.overrides.value[k]
    ELSE defaultWeights[k]]

C2_MergedValid ==
  LET w == C2_MergedWeights
      sum == w["budget"] + w["location"] + w["amenities"] + w["size"]
               + w["features"] + w["utilities"]
  IN  /\ sum >= 990
      /\ sum <= 1010
      /\ \A k \in AllKeys : w[k] >= 0 /\ w[k] <= 1000

\* C2: the merged weights are validated before any candidate is fetched: a
\* merged vector whose sum is more than 0.01 away from 1.0, or with a
\* component below 0 or above 1, makes the call fail with an invalid-weights
\* error and no candidate query is issued; any other vector is accepted and
\* the query is issued.
C2_WeightsValidatedFirst ==
  op = "optimize" =>
    IF C2_MergedValid
    THEN queries = 1 /\ error \notin {"weights_sum", "weight_range"}
    ELSE /\ pc = "failed"
         /\ error \in {"weights_sum", "weight_range"}
         /\ queries = 0
         /\ properties = <<>>

C2_Witness ==
  /\ op = "optimize"
  /\ pc = "failed"
  /\ error = "weight_range"
  /\ queries = 0

\* C3: the match list of a call with maxResults >= 1 has at most maxResults
\* entries and no property id occurs in two of them.
C3_Capacity ==
  (OptimizeDone /\ req.maxResults >= 1) =>
    /\ Len(result.matches) <= req.maxResults
    /\ \A i, j \in 1..Len(result.matches) :
         i # j => result.matches[i].propertyId # result.matches[j].propertyId

C3_Witness ==
  /\ OptimizeDone
  /\ Len(result.matches) = req.maxResults
  /\ Cardinality({i \in 1..Len(properties) : ClearsThreshold(properties[i])})
       > req.maxResults

\* C4: with k eligible candidates of composite score >= minMatchThreshold
\* the result holds exactly min(k, maxResults) matches, and they are the
\* highest-scoring of those candidates.
C4_TopK ==
  OptimizeDone =>
    LET clearing == {i \in 1..Len(properties) : ClearsThreshold(properties[i])}
        k == Cardinality(clearing)
        chosen == {result.matches[i].propertyId : i \in 1..Len(result.matches)}
    IN  /\ Len(result.matches)
             = (IF k < req.maxResults THEN k ELSE req.maxResults)
        /\ \A i \in clearing :
             properties[i].id \notin chosen =>
               \A id \in chosen :
                 RLe(CompositeOf(properties[i]), CompositeOf(DocOf(id)))

\* C5: the match list is in descending order of composite score (the
\* weighted sum of the six sub-scores), and matches of equal composite score
\* are in the order of the eligibility-filter output.
C5_Ordered ==
  OptimizeDone =>
    \A i, j \in 1..Len(result.matches) :
      i < j =>
        LET a == CompositeOf(DocOf(result.matches[i].propertyId))
            b == CompositeOf(DocOf(result.matches[j].propertyId))
        IN  \/ RLt(b, a)
            \/ /\ a = b
               /\ PositionOf(result.matches[i].propertyId)
                    < PositionOf(result.matches[j].propertyId)

\* C6: a call whose elapsed time exceeds maxExecutionTime does not run to
\* completion: it resolves with a result marked as timed out and leaves a
\* telemetry record with success = FALSE.
C6_TimeoutAborts ==
  (OptimizeDone /\ result.executionTime > maxExecutionTime) =>
    /\ result.algorithm \notin {"greedy_matching", "linear_programming"}
    /\ Len(metrics) = metricsAtCall + 1
    /\ ~metrics[Len(metrics)].success

C8_PassesHardConstraints(d) ==
  LET c == req.constraints
      preferred == ToLowerCase(c.location)
  IN  /\ d.status = "available"
      /\ c.budget.min <= d.rent
      /\ d.rent <= c.budget.max
      /\ d.bedrooms >= c.bedrooms
      /\ d.bathrooms >= c.bathrooms
      /\ c.location # <<>> =>
           \/ Includes(ToLowerCase(d.location.city), preferred)
           \/ Includes(ToLowerCase(d.location.address), preferred)
      /\ c.amenities # <<>> =>
           SeqRange(d.amenities) \cap SeqRange(c.amenities) # {}

\* C8: every match refers to a candidate that passes all hard constraints of
\* the request (available, rent within the budget, enough bedrooms and
\* bathrooms, city or address containing a non-empty preferred location
\* case-insensitively, one of the required amenities when any is required),
\* and the eligible list has at most maxProperties entries.
C8_MatchesAreEligible ==
  OptimizeDone =>
    /\ \A i \in 1..Len(result.matches) :
         C8_PassesHardConstraints(DocOf(result.matches[i].propertyId))
    /\ Len(properties) <= maxProperties

BudgetMaxValues == {0, 100000, 150000, 200000}

C9_CountAt(b) ==
  Len(fetchEligibleProperties(pool,
        [req.constraints EXCEPT !.budget.max = b], maxProperties))

\* C9: with the collection and everything but budget.max fixed, the number
\* of candidates the eligibility filter returns does not decrease when
\* budget.max is raised, also at the maxProperties cap.
C9_Monotone ==
  OptimizeDone =>
    \A b \in BudgetMaxValues :
      /\ b >= req.constraints.budget.max => C9_CountAt(b) >= Len(properties)
      /\ b <= req.constraints.budget.max => C9_CountAt(b) <= Len(properties)

C9_Witness ==
  /\ OptimizeDone
  /\ Len(properties) = maxProperties
  /\ \E b \in BudgetMaxValues :
       /\ b < req.constraints.budget.max
       /\ C9_CountAt(b) < Len(properties)
  /\ \E b \in BudgetMaxValues :
       /\ b > req.constraints.budget.max
       /\ Cardinality({i \in 1..Len(pool) :
            MatchesQuery(pool[i], [req.constraints EXCEPT !.budget.max = b])})
            > maxProperties

C10_NoneQualifies ==
  \A i \in 1..Len(pool) :
    MatchesQuery(pool[i], req.constraints) => ~ClearsThreshold(pool[i])

\* C10: when no candidate is eligible, or no eligible candidate reaches
\* minMatchThreshold, the call does not fail: it resolves with an empty match
\* list, objective value 0 and no satisfied constraint.
C10_EmptyResult ==
  (op = "optimize" /\ Settled /\ C10_NoneQualifies
     /\ error \notin {"weights_sum", "weight_range", "query_failed"}) =>
    /\ pc = "done"
    /\ result.matches = <<>>
    /\ result.objectiveValue = R0
    /\ result.constraintsSatisfied = <<>>

C10_Witness ==
  /\ OptimizeDone
  /\ Len(properties) > 0
  /\ result.matches = <<>>
  /\ result.objectiveValue = R0

\* C11: a rent within [budget.min, budget.max] has budget sub-score exactly
\* 100: every eligible property of the call scores 100 on budget, and every
\* match of the result carries budgetScore 100.
C11_BudgetScoreInRange ==
  OptimizeDone =>
    /\ \A i \in 1..Len(properties) :
         calculateBudgetScore(revision, properties[i].rent,
                              req.constraints.budget) = R100
    /\ \A i \in 1..Len(result.matches) :
         result.matches[i].matchDetails.budgetScore = 100

C12_InRange(x) == RLe(R0, x) /\ RLe(x, R100)

C12_DetailsInRange(d) ==
  /\ C12_InRange(d.budgetScore)
  /\ C12_InRange(d.locationScore)
  /\ C12_InRange(d.amenityScore)
  /\ C12_InRange(d.sizeScore)
  /\ C12_InRange(d.featureScore)
  /\ C12_InRange(d.utilityScore)

\* C12: for every property scored by a call, each of the six sub-scores and
\* the composite score lies in [0, 100], and so do the scores carried by the
\* matches of the result.
C12_ScoresInRange ==
  OptimizeDone =>
    /\ \A i \in 1..Len(properties) :
         /\ C12_DetailsInRange(ScoreDetails(revision, properties[i],
                                            req.constraints))
         /\ C12_InRange(CompositeOf(properties[i]))
    /\ \A i \in 1..Len(result.matches) :
         /\ result.matches[i].matchScore \in 0..100
         /\ \A k \in DOMAIN result.matches[i].matchDetails :
              result.matches[i].matchDetails[k] \in 0..100

\* Composite score of the property of a reverse call for the tenant at a
\* position of the Tenant collection
C13_TenantComposite(position) ==
  calculateSatisfactionScore(revision, Catalogue[req.property],
                             tenants[position].preferences, defaultWeights)

\* C13: every match returned by optimizeMatching, and every tenant returned
\* by optimizeTenantMatching, has an unrounded composite score of at least
\* minMatchThreshold.
C13_AboveThreshold ==
  /\ OptimizeDone =>
       \A i \in 1..Len(result.matches) :
         ClearsThreshold(DocOf(result.matches[i].propertyId))
  /\ (pc = "done" /\ op = "reverse") =>
       \A i \in 1..Len(result.matches) :
         RLe(RInt(minMatchThreshold),
             C13_TenantComposite(result.matches[i].position))

\* Sum of the composite scores carried by the matches of a result
C14_ScoreTotal(matches) ==
  SumSeq([i \in 1..Len(matches) |-> matches[i].matchScore])

\* C14: the objectiveValue of a result is the mean of the composite scores its
\* matches carry, divided by 100; it is 0 when the result has no matches, and
\* it is never below 0 nor above 1.
C14_ObjectiveValue ==
  OptimizeDone =>
    /\ Len(result.matches) = 0 => result.objectiveValue = R0
    /\ Len(result.matches) > 0 =>
         RMul(result.objectiveValue, RInt(100 * Len(result.matches))) =
           RInt(C14_ScoreTotal(result.matches))
    /\ RLe(R0, result.objectiveValue)
    /\ RLe(result.objectiveValue, RInt(1))

\* A result with two matches of different composite scores, whose mean is
\* strictly between them
C14_Witness ==
  /\ OptimizeDone
  /\ Len(result.matches) = 2
  /\ result.matches[1].matchScore # result.matches[2].matchScore
  /\ RMul(result.objectiveValue, RInt(200)) =
       RInt(C14_ScoreTotal(result.matches))

\* Criterion names and the sub-score each one averages
C15_Criteria ==
  [budget |-> "budgetScore", location |-> "locationScore",
   amenities |-> "amenityScore", size |-> "sizeScore",
   features |-> "featureScore", utilities |-> "utilityScore"]

\* Sum over the matches of the sub-score of one criterion
C15_Total(matches, field) ==
  SumSeq([i \in 1..Len(matches) |-> matches[i].matchDetails[field]])

\* C15: constraintsSatisfied lists exactly the criteria whose sub-score,
\* averaged over the returned matches, is at least 70: none below 70 is
\* listed, none at or above 70 is omitted, and nothing else is listed.
C15_ConstraintsSatisfied ==
  (OptimizeDone /\ Len(result.matches) > 0) =>
    /\ SeqRange(result.constraintsSatisfied) \subseteq DOMAIN C15_Criteria
    /\ \A c \in DOMAIN C15_Criteria :
         c \in SeqRange(result.constraintsSatisfied)
           <=> C15_Total(result.matches, C15_Criteria[c])
                 >= 70 * Len(result.matches)

\* Two matches where a criterion is listed and another, whose sub-scores sum
\* to 70 or more but average below 70, is not
C15_Witness ==
  /\ OptimizeDone
  /\ Len(result.matches) = 2
  /\ \E c, d \in DOMAIN C15_Criteria :
       /\ c \in SeqRange(result.constraintsSatisfied)
       /\ d \notin SeqRange(result.constraintsSatisfied)
       /\ C15_Total(result.matches, C15_Criteria[d]) >= 70

\* A step in which recordMetrics was called
C16_Recorded == Len(submitted') = Len(submitted) + 1

\* C16: the store never holds more than maxMetricsHistory (1000) records and
\* keeps them in insertion order: a call of recordMetrics puts its record
\* last and, only when the store was full, evicts the single oldest record.
C16_Capacity ==
  [][C16_Recorded =>
       /\ Len(metrics') <= maxMetricsHistory
       /\ metrics' =
            IF Len(metrics) < maxMetricsHistory
            THEN Append(metrics, submitted'[Len(submitted')])
            ELSE Append(Tail(metrics), submitted'[Len(submitted')])]_vars

\* The store is full, the two newest records are last and the oldest record
\* of the earlier runs has been evicted
C16_Witness ==
  /\ earlier = maxMetricsHistory - 1
  /\ Len(submitted) = 2
  /\ Len(metrics) = maxMetricsHistory
  /\ metrics[maxMetricsHistory] = submitted[2]
  /\ metrics[maxMetricsHistory - 1] = submitted[1]
  /\ metrics[1] = Earlier(2)

\* C17: getEfficiencyScore returns a value between 0 and 100: 0.4 times the
\* success rate of the most recent 100 records, plus a time component and an
\* objective component, the three together never above 100.
C17_EfficiencyInRange ==
  answer.call = "getEfficiencyScore" => answer.value \in 0..100

QueryNames ==
  {"getAlgorithmPerformance", "getOverallPerformance", "getPerformanceTrends",
   "getMemoryUsageStats", "getEfficiencyScore", "exportMetrics"}

\* C18: the queries on the store (getAlgorithmPerformance,
\* getOverallPerformance, getPerformanceTrends, getMemoryUsageStats,
\* getEfficiencyScore, exportMetrics) leave the list of records unchanged.
C18_QueriesReadOnly ==
  [][(answer.call = "none" /\ answer'.call \in QueryNames)
       => metrics' = metrics]_vars

\* exportMetrics has returned the records of a store with more than 100
\* records, which still holds them all
C18_Witness ==
  /\ answer.call = "exportMetrics"
  /\ Len(metrics) > 100
  /\ Len(answer.value) = Len(metrics)
  /\ metrics = SliceLast(EarlierRuns(earlier) \o submitted, maxMetricsHistory)

\* Every record the store has received, oldest first
C19_History == EarlierRuns(earlier) \o submitted

\* The records of history that the store lacks are the oldest ones, and each
\* was evicted for capacity or is older than the current day (clearOldMetrics)
C19_OnlyOldestMissing(history, kept) ==
  /\ kept <= Len(history)
  /\ metrics = SliceLast(history, kept)
  /\ \A i \in 1..(Len(history) - kept) :
       \/ i <= Len(history) - maxMetricsHistory
       \/ history[i].timestamp < now

\* C19: whatever the interleaving of the runs that record to the store, no
\* record is lost or duplicated (the store is the history of recordMetrics
\* calls in call order, less the oldest records), the capacity is never
\* exceeded, and every record in the store is complete.
C19_ConcurrentAppends ==
  /\ Len(metrics) <= maxMetricsHistory
  /\ C19_OnlyOldestMissing(C19_History, Len(metrics))
  /\ \A i \in 1..Len(metrics) :
       DOMAIN metrics[i] = MetricFields \cup {"timestamp"}

\* A record reached the store while another run was still in progress, and a
\* query observed the store at that point
C19_Witness ==
  /\ \E r \in Runs : runs[r] = "running"
  /\ Len(submitted) = 1
  /\ Len(metrics) > 0
  /\ metrics[Len(metrics)] = submitted[1]
  /\ answer.call = "getOverallPerformance"
  /\ answer.value.totalOptimizations = earlier + 1

\* The document has no size, no features map or no utilities map
C20_LacksOptional(property) ==
  \/ property.size = 0
  \/ ~property.features.present
  \/ ~property.utilities.present

\* C20: generating the explanation never fails when the candidate lacks an
\* optional field (size, features map, utilities map): the call does not
\* reject with a TypeError, and the explanation of every returned match ends
\* with the overall-score line, without a line for a map the document lacks.
C20_ExplanationNeverFails ==
  (Settled /\ op = "optimize") =>
    /\ error # "type_error"
    /\ pc = "done" =>
         \A i \in 1..Len(result.matches) :
           LET lines == result.matches[i].explanation
               doc == DocOf(result.matches[i].propertyId)
           IN  /\ lines[Len(lines)].line = "overall"
               /\ ~doc.features.present =>
                    \A k \in 1..Len(lines) : lines[k].line # "features"
               /\ ~doc.utilities.present =>
                    \A k \in 1..Len(lines) : lines[k].line # "utilities"

\* The sub-scores of a category in which the request imposes no requirement
C21_Unconstrained(constraints, d, full) ==
  /\ Len(constraints.amenities) = 0 => d.amenityScore = full
  /\ constraints.features.on = {} => d.featureScore = full
  /\ constraints.utilities.on = {} => d.utilityScore = full

\* C21: a category in which the preference imposes no requirement scores 100
\* for every candidate whatever its attributes: the amenity score when no
\* amenity is required, the feature score when no feature flag is true, the
\* utility score when no utility flag is true.
C21_NoRequirementScores100 ==
  OptimizeDone =>
    /\ \A i \in 1..Len(properties) :
         C21_Unconstrained(req.constraints,
           ScoreDetails(revision, properties[i], req.constraints), R100)
    /\ \A i \in 1..Len(result.matches) :
         C21_Unconstrained(req.constraints, result.matches[i].matchDetails,
                           100)

\* A match for a request with no required amenity and a feature map without
\* a true flag, on a document that has amenities and true feature flags
C21_Witness ==
  /\ OptimizeDone
  /\ Len(req.constraints.amenities) = 0
  /\ req.constraints.features.present
  /\ req.constraints.features.on = {}
  /\ \E i \in 1..Len(result.matches) :
       /\ Len(DocOf(result.matches[i].propertyId).amenities) > 0
       /\ DocOf(result.matches[i].propertyId).features.on # {}
       /\ result.matches[i].matchDetails.amenityScore = 100
       /\ result.matches[i].matchDetails.featureScore = 100

\* The request of the scenario with the default weights has settled
C22_ScenarioRun ==
  /\ OptimizeDone
  /\ req.constraints = Scenarios[1].constraints
  /\ req.overrides.keys = {}

\* C22: with the default weights, the request {budget [50000, 150000],
\* location "Lagos", amenities [parking], 2 bedrooms, 1 bathroom} against a
\* collection of one available document of rent 90000, 2 bedrooms, 1
\* bathroom, city "Lagos", amenities [parking, security], of any size or
\* none, gives exactly one match, with budget score 100, amenity score 100
\* and a composite score of at least 70.
C22_ScenarioA ==
  C22_ScenarioRun =>
    /\ Len(result.matches) = 1
    /\ result.matches[1].matchDetails.budgetScore = 100
    /\ result.matches[1].matchDetails.amenityScore = 100
    /\ RLe(RInt(70), CompositeOf(pool[1]))

\* C23: optimizeTenantMatching returns at most maxResults tenants, by
\* descending match score, tenants of equal score in the order they were
\* read, each tenant at most once; when no tenant has a budget preference it
\* returns an empty list, and it fails only when the query does.
C23_ReverseRanking ==
  /\ (pc = "done" /\ op = "reverse") =>
       /\ Len(result.matches) <= req.maxResults
       /\ \A i, j \in 1..Len(result.matches) :
            i < j =>
              \/ result.matches[i].matchScore > result.matches[j].matchScore
              \/ /\ result.matches[i].matchScore = result.matches[j].matchScore
                 /\ result.matches[i].position < result.matches[j].position
       /\ Len(tenants) = 0 => result.matches = <<>>
  /\ (pc = "failed" /\ op = "reverse") => error = "query_failed"

\* A ranking by score with the capacity used, and two tenants of equal
\* score returned in read order
C23_Witness ==
  /\ pc = "done"
  /\ op = "reverse"
  /\ Len(result.matches) = 2
  /\ req.maxResults = 2
  /\ result.matches[1].matchScore = result.matches[2].matchScore
  /\ result.matches[1].tenantId = "t1"
  /\ result.matches[2].tenantId = "t2"

\* C24: whenever optimizeMatching returns at least one match,
\* constraintsSatisfied is not empty.
C24_SomeConstraintSatisfied ==
  (OptimizeDone /\ Len(result.matches) > 0) =>
    Len(result.constraintsSatisfied) > 0

\* C25: the greedy assignment commits a pair only when neither its tenant nor
\* its property was committed earlier: in the matches of the greedy revision
\* no tenant id occurs twice and no property id occurs twice.
C25_GreedyCommitsOnce ==
  (OptimizeDone /\ revision = "greedy") =>
    \A i, j \in 1..Len(result.matches) :
      i # j =>
        /\ result.matches[i].tenantId # result.matches[j].tenantId
        /\ result.matches[i].propertyId # result.matches[j].propertyId

\* Two eligible properties clear the threshold for the one tenant and two
\* results are allowed, and the loop committed the first pair only
C25_Witness ==
  /\ OptimizeDone
  /\ revision = "greedy"
  /\ req.maxResults = 2
  /\ Len(properties) = 2
  /\ \A i \in 1..2 : ClearsThreshold(properties[i])
  /\ Len(result.matches) = 1

\* 100 x (true preference flags the candidate also has true) / (true
\* preference flags); a candidate without a flag map has no flag true
C26_Ratio(propertyFlags, requiredFlags) ==
  RMul(Rat(Cardinality(requiredFlags.on \cap propertyFlags.on), Cardinality(requiredFlags.on)), R100)

\* C26: when the preference has at least one feature (utility) flag true,
\* the feature (utility) score of every candidate is 100 x matched true flags
\* / required true flags, so a candidate with none of the required flags,
\* one with no flag map included, scores 0.
C26_FlagRatio ==
  (op = "optimize" /\ Settled) =>
    \A i \in 1..Len(properties) :
      /\ req.constraints.features.on # {} =>
           ScoreDetails(revision, properties[i], req.constraints).featureScore
             = C26_Ratio(properties[i].features, req.constraints.features)
      /\ req.constraints.utilities.on # {} =>
           ScoreDetails(revision, properties[i], req.constraints).utilityScore
             = C26_Ratio(properties[i].utilities, req.constraints.utilities)

\* Indices of the stored records of an algorithm, and of its successful ones
C27_Records(id) == {i \in 1..Len(metrics) : metrics[i].algorithm = id}

C27_Successes(id) == {i \in C27_Records(id) : metrics[i].success}

\* Sum of the execution times (objective values) of the records in a set
C27_TimeOf(indices) ==
  Total([i \in 1..Len(metrics) |-> IF i \in indices THEN metrics[i].executionTime ELSE 0])

C27_ObjectiveOf(indices) ==
  RSum([i \in 1..Len(metrics) |-> IF i \in indices THEN metrics[i].objectiveValue ELSE R0])

\* mean = sum / count, for a count above zero
C27_IsMean(mean, sum, count) == count > 0 => RMul(mean, RInt(count)) = sum

C27_AlgorithmAggregates(stats, total, successes) ==
  /\ stats.totalRuns = total
  /\ C27_IsMean(stats.successRate, RInt(100 * Cardinality(successes)), total)
  /\ C27_IsMean(stats.averageExecutionTime, RInt(C27_TimeOf(successes)), Cardinality(successes))
  /\ C27_IsMean(stats.averageObjectiveValue, C27_ObjectiveOf(successes), Cardinality(successes))

C27_AllSuccesses == {i \in 1..Len(metrics) : metrics[i].success}

C27_OverallAggregates(stats, breakdown) ==
  /\ stats.totalOptimizations = Len(metrics)
  /\ C27_IsMean(stats.successRate, RInt(100 * Cardinality(C27_AllSuccesses)), Len(metrics))
  /\ C27_IsMean(stats.averageExecutionTime, RInt(C27_TimeOf(C27_AllSuccesses)), Cardinality(C27_AllSuccesses))
  /\ Total([i \in 1..Len(breakdown) |-> breakdown[i].totalRuns]) = Len(metrics)
  /\ \A i, j \in 1..Len(breakdown) :
       i # j => breakdown[i].algorithm # breakdown[j].algorithm
  /\ \A i \in 1..Len(breakdown) :
       C27_AlgorithmAggregates(breakdown[i], Cardinality(C27_Records(breakdown[i].algorithm)), C27_Successes(breakdown[i].algorithm))

C28_Recent(days) ==
  {i \in 1..Len(metrics) : metrics[i].timestamp >= now - days}

C28_Buckets(trends, recent, days) ==
  /\ Total([k \in 1..Len(trends) |-> trends[k].optimizations]) = Cardinality(recent)
  /\ \A k \in 1..Len(trends) :
       /\ trends[k].date >= now - days
       /\ trends[k].optimizations = Cardinality({i \in recent : metrics[i].timestamp = trends[k].date})
  /\ \A i \in recent :
       \E k \in 1..Len(trends) : trends[k].date = metrics[i].timestamp
  /\ \A j, k \in 1..Len(trends) : j < k => trends[j].date < trends[k].date

\* The value with the caller is that of getPerformanceTrends(days); the
\* store and the date are those of the call until the caller returns
C28_Asked(days) ==
  /\ answer.call = "getPerformanceTrends"
  /\ answer.value = getPerformanceTrends(metrics, days, now)

\* C28: getPerformanceTrends(days) counts every stored record whose timestamp
\* is within the last days days in exactly one bucket, that of its calendar
\* day: the counts sum to the number of such records, no older record is
\* counted, each day appears once and the buckets are in ascending date order.
C28_TrendBuckets ==
  \A days \in TrendDays :
    C28_Asked(days) => C28_Buckets(answer.value, C28_Recent(days), days)

\* The trends of a week over a store with records of two calendar days
C28_Witness ==
  /\ answer.call = "getPerformanceTrends"
  /\ Len(answer.value) = 2
  /\ answer.value[1].date = 0
  /\ answer.value[2].date = 1
  /\ answer.value[1].optimizations + answer.value[2].optimizations = Len(metrics)
  /\ answer.value[1].optimizations > 1

\* What optimizeMatching does with the arguments r on its own: the outcome
\* of the invocation is that one
C29_AsAlone(call, r, fetched, out) ==
  IF validateWeights(MergeWeights(r.overrides)) # "ok"
  THEN call.pc = "failed" /\ call.error = validateWeights(MergeWeights(r.overrides))
  ELSE IF Len(fetched) = 0
  THEN call.pc = "done" /\ call.result = createEmptyResult(revision, 0)
  ELSE IF out.threw
  THEN call.pc = "failed" /\ call.error = "type_error"
  ELSE call.pc = "done" /\ call.result = MakeResult(revision, out.matches, fetched, 0)

C29_Assigned(call, r, fetched) ==
  C29_AsAlone(call, r, fetched, Assign(revision, r.constraints, fetched, MergeWeights(r.overrides), r.maxResults, solverTie))

\* C29: overlapping invocations of optimizeMatching do not interfere:
\* whatever the interleaving at the await of the candidate query, each
\* invocation settles as it would alone with its arguments against the same
\* collection (or with the rejection of its own query).  Execution time is
\* left out of the comparison.
C29_NoInterference ==
  \A c \in Invocations :
    calls[c].pc \in {"done", "failed"} =>
      \/ calls[c].pc = "failed" /\ calls[c].error = "query_failed"
      \/ C29_Assigned(calls[c], calls[c].asked, fetchEligibleProperties(pool, calls[c].asked.constraints, maxProperties))

\* An invocation has returned matches while another one, begun with other
\* constraints, awaits its query
C29_Witness ==
  /\ calls[1].pc = "fetching"
  /\ calls[2].pc = "done"
  /\ Len(calls[2].result.matches) > 0
  /\ calls[1].asked.constraints # calls[2].asked.constraints

\* The averages and the rate of one algorithm's statistics are numbers
C30_AlgorithmFinite(stats) ==
  /\ ~IsNaN(stats.averageExecutionTime)
  /\ ~IsNaN(stats.successRate)
  /\ ~IsNaN(stats.averageObjectiveValue)

C30_BreakdownFinite(breakdown) ==
  \A i \in 1..Len(breakdown) : C30_AlgorithmFinite(breakdown[i])

\* C30: for every content of the store, one where all records of an
\* algorithm are failures included, the aggregates of
\* getAlgorithmPerformance, getOverallPerformance and getMemoryUsageStats
\* are finite numbers: a mean over no successful run is 0, never a
\* division by zero.
C30_FiniteAggregates ==
  /\ answer.call = "getAlgorithmPerformance" =>
       C30_AlgorithmFinite(answer.value)
  /\ answer.call = "getOverallPerformance" =>
       /\ ~IsNaN(answer.value.averageExecutionTime)
       /\ ~IsNaN(answer.value.successRate)
       /\ C30_BreakdownFinite(answer.value.algorithmBreakdown)
  /\ answer.call = "getMemoryUsageStats" =>
       /\ ~IsNaN(answer.value.averageMemoryUsage)
       /\ ~IsNaN(answer.value.memoryTrend)

====
